---- MODULE Spec2Model ----
(***************************************************************************)
(* Model of the two pieces of control flow that the demonstration scripts  *)
(* of this repository implement themselves:                                *)
(*                                                                         *)
(*   - fetch_live_rate (agents/curr_conv_agent_no_func.py): the endpoint   *)
(*     fallback loop over two exchange-rate URLs;                          *)
(*   - the interactive driver loop of agents/agent1-search.py.             *)
(*                                                                         *)
(* The reasoning loops themselves (smolagents CodeAgent/ToolCallingAgent,  *)
(* langchain initialize_agent) are third-party library code that the       *)
(* scripts only construct and call; agent.run is therefore an external     *)
(* call whose outcome (a value, or an Exception) is chosen by the          *)
(* environment.  Asynchronous signals (KeyboardInterrupt delivered in the  *)
(* middle of a statement) are not modelled.                                *)
(*                                                                         *)
(* Strings are sequences of one-character strings so that str.lower() and  *)
(* str.strip() are computed and not assumed.                               *)
(***************************************************************************)
EXTENDS Integers, Sequences, FiniteSets, TLC

VARIABLES
    \* ---- fetch_live_rate ----
    fpc,            \* "idle" | "loop" | "done"
    from_currency,  \* argument of the call in progress
    to_currency,    \* argument of the call in progress
    base,           \* from_currency.lower()
    target,         \* to_currency.lower()
    idx,            \* position of the for loop in urls (1-based)
    log,            \* responses received so far, one per requests.get issued
    requested,      \* urls requested so far, in order
    result,         \* outcome of the call: none / return value / RuntimeError
    \* ---- agent1-search driver loop ----
    dpc,            \* "input" | "run" | "ended"
    inputs,         \* the lines input() has returned so far
    question,       \* the local variable question
    runCalls,       \* the arguments agent.run has been called with, in order
    printed,        \* what the loop has printed, in order
    endReason       \* "none" | "break" | "EOFError"

fvars == <<fpc, from_currency, to_currency, base, target, idx, log, requested, result>>
dvars == <<dpc, inputs, question, runCalls, printed, endReason>>
vars == <<fpc, from_currency, to_currency, base, target, idx, log, requested, result,
          dpc, inputs, question, runCalls, printed, endReason>>

(***************************************************************************)
(* Bounds                                                                  *)
(***************************************************************************)
\* number of lines the driver loop reads in one behaviour
MaxInputs == 3

(***************************************************************************)
(* Python string operations                                                *)
(***************************************************************************)
\* str.lower() on one character (the characters the model uses)
LowerChar(c) ==
    CASE c = "D" -> "d"
      [] c = "E" -> "e"
      [] c = "I" -> "i"
      [] c = "R" -> "r"
      [] c = "S" -> "s"
      [] c = "T" -> "t"
      [] c = "U" -> "u"
      [] c = "X" -> "x"
      [] OTHER -> c

\* str.lower()
Lower(s) == [i \in 1..Len(s) |-> LowerChar(s[i])]

\* the characters str.strip() removes
IsSpace(c) == c \in {" ", "\t"}

RECURSIVE LStrip(_)
LStrip(s) == IF s = <<>> THEN s
             ELSE IF IsSpace(Head(s)) THEN LStrip(Tail(s)) ELSE s

RECURSIVE RStrip(_)
RStrip(s) == IF s = <<>> THEN s
             ELSE IF IsSpace(s[Len(s)]) THEN RStrip(SubSeq(s, 1, Len(s) - 1)) ELSE s

\* str.strip()
Strip(s) == RStrip(LStrip(s))

(***************************************************************************)
(* fetch_live_rate: the world it talks to                                  *)
(***************************************************************************)
\* currency codes a caller passes (any case)
CurrencyArgs == { <<"U","S","D">>, <<"u","s","d">>, <<"E","U","R">>, <<"E","u","r">> }

\* keys that occur in the served JSON documents
DataKeys == { <<"u","s","d">>, <<"e","u","r">>, <<"E","U","R">> }

\* JSON scalars that occur as the value of a rate
RateVals == { "0.9", "1.1", "null" }

\* float(v): defined for JSON numbers (result in tenths), raises for null
FloatTable == ("0.9" :> 9) @@ ("1.1" :> 11)
Floatable(v) == v \in DOMAIN FloatTable
Float(v) == FloatTable[v]

\* a JSON value: an object (dict) or anything else (list, string, number, null)
JDict(f) == [tag |-> "dict", d |-> f]
JOther == [tag |-> "other", d |-> <<>>]

\* the objects {base: {target: rate}} the endpoints may serve
RatesDicts == { <<>> } \cup { (k :> v) : k \in DataKeys, v \in RateVals }
RatesValues == { JDict(r) : r \in RatesDicts } \cup { JOther }
DataDicts == { <<>> } \cup { (k :> r) : k \in DataKeys, r \in RatesValues }
DataValues == { JDict(f) : f \in DataDicts } \cup { JOther }

\* what one requests.get / raise_for_status / json sequence can come to
Responses ==
    { [kind |-> k, data |-> JOther] : k \in {"req_exc", "http_err", "bad_json"} }
    \cup { [kind |-> "json", data |-> dv] : dv \in DataValues }

\* urls (lines 32-35): two hosts, both parameterised by base
urls(b) == << [host |-> "cdn.jsdelivr.net", base |-> b],
              [host |-> "latest.currency-api.pages.dev", base |-> b] >>

NoResult == [kind |-> "none", value |-> 0]

(***************************************************************************)
(* fetch_live_rate                                                         *)
(***************************************************************************)
\* The body of the try block (lines 39-45) for one response: it raises an
\* Exception, returns float(rates[target]), or falls off its end.
TryBody(resp, b, t) ==
    IF resp.kind = "req_exc" THEN [out |-> "raised", value |-> 0]        \* requests.get raises
    ELSE IF resp.kind = "http_err" THEN [out |-> "raised", value |-> 0]  \* raise_for_status raises
    ELSE IF resp.kind = "bad_json" THEN [out |-> "raised", value |-> 0]  \* resp.json() raises
    ELSE IF resp.data.tag # "dict" THEN [out |-> "raised", value |-> 0]  \* data.get: AttributeError
    ELSE LET rates == IF b \in DOMAIN resp.data.d THEN resp.data.d[b] ELSE JDict(<<>>)
         IN  \* rates that is no dict: "target in rates" raises, is false, or is
             \* true and rates[target] raises; no value is returned in any case
             IF rates.tag # "dict" THEN [out |-> "raised", value |-> 0]
             ELSE IF t \in DOMAIN rates.d
                  THEN IF Floatable(rates.d[t])
                       THEN [out |-> "returned", value |-> Float(rates.d[t])]
                       ELSE [out |-> "raised", value |-> 0]              \* float() raises
                  ELSE [out |-> "fell", value |-> 0]

\* a broken handler that gives up on the first failure
AfterFailure_Break(i, n) == n + 1

\* except Exception: continue, and the end of the loop body: the next url
AfterFailure(i, n) == i + 1

\* lines 28-35: normalise the arguments and enter the for loop
FetchCall ==
    /\ fpc = "idle"
    /\ \E f \in CurrencyArgs, t \in CurrencyArgs :
          /\ from_currency' = f
          /\ to_currency' = t
          /\ base' = Lower(f)
          /\ target' = Lower(t)
    /\ idx' = 1
    /\ log' = <<>>
    /\ requested' = <<>>
    /\ result' = NoResult
    /\ fpc' = "loop"
    /\ UNCHANGED dvars

\* lines 37-47: one iteration of the for loop
FetchTry ==
    /\ fpc = "loop"
    /\ idx <= Len(urls(base))
    /\ \E resp \in Responses :
          LET o == TryBody(resp, base, target) IN
          /\ log' = Append(log, resp)
          /\ requested' = Append(requested, urls(base)[idx])
          /\ IF o.out = "returned"
             THEN /\ result' = [kind |-> "return", value |-> o.value]
                  /\ fpc' = "done"
                  /\ idx' = idx
             ELSE /\ idx' = AfterFailure(idx, Len(urls(base)))
                  /\ UNCHANGED <<result, fpc>>
    /\ UNCHANGED <<from_currency, to_currency, base, target>>
    /\ UNCHANGED dvars

\* lines 49-51: the loop ran out of urls
FetchRaise ==
    /\ fpc = "loop"
    /\ idx > Len(urls(base))
    /\ result' = [kind |-> "RuntimeError", value |-> 0]
    /\ fpc' = "done"
    /\ UNCHANGED <<from_currency, to_currency, base, target, idx, log, requested>>
    /\ UNCHANGED dvars

FetchInit ==
    /\ fpc = "idle"
    /\ from_currency = <<>>
    /\ to_currency = <<>>
    /\ base = <<>>
    /\ target = <<>>
    /\ idx = 1
    /\ log = <<>>
    /\ requested = <<>>
    /\ result = NoResult

(***************************************************************************)
(* agent1-search: the interactive loop of __main__                         *)
(***************************************************************************)
\* the lines a user may type
Lines == { <<"e","x","i","t">>,
           <<" ","E","x","i","T"," ">>,
           <<"\t","E","X","I","T">>,
           <<"e","x","i","t","s">>,
           <<"e","x"," ","i","t">>,
           <<"h","i">>,
           <<" ">> }

ExitWord == <<"e","x","i","t">>

\* a broken test that forgets lower()
IsExit_NoLower(q) == q = ExitWord

\* line 33: question.lower() == "exit"
IsExit(q) == Lower(q) = ExitWord

\* lines 32-35: input returns a line; strip it; break on exit
ReadInput ==
    /\ dpc = "input"
    /\ Len(inputs) < MaxInputs
    /\ \E line \in Lines :
          /\ inputs' = Append(inputs, line)
          /\ question' = Strip(line)
          /\ IF IsExit(Strip(line))
             THEN /\ printed' = Append(printed, "Goodbye!")
                  /\ dpc' = "ended"
                  /\ endReason' = "break"
             ELSE /\ dpc' = "run"
                  /\ UNCHANGED <<printed, endReason>>
    /\ UNCHANGED runCalls
    /\ UNCHANGED fvars

\* line 32: input raises EOFError at the end of standard input; the call is
\* outside the try block, so the error leaves the loop
InputEOF ==
    /\ dpc = "input"
    /\ dpc' = "ended"
    /\ endReason' = "EOFError"
    /\ UNCHANGED <<inputs, question, runCalls, printed>>
    /\ UNCHANGED fvars

\* lines 37-41: agent.run(question) returns an answer or raises an Exception
RunAgent ==
    /\ dpc = "run"
    /\ runCalls' = Append(runCalls, question)
    /\ \E outcome \in {"answer", "Exception"} :
          printed' = Append(printed, IF outcome = "answer" THEN "answer" ELSE "Error")
    /\ dpc' = "input"
    /\ UNCHANGED <<inputs, question, endReason>>
    /\ UNCHANGED fvars

DriverInit ==
    /\ dpc = "input"
    /\ inputs = <<>>
    /\ question = <<>>
    /\ runCalls = <<>>
    /\ printed = <<>>
    /\ endReason = "none"

(***************************************************************************)
(* Specifications                                                          *)
(***************************************************************************)
Init == FetchInit /\ DriverInit

NextFetch == FetchCall \/ FetchTry \/ FetchRaise

NextDriver == ReadInput \/ InputEOF \/ RunAgent

\* fetch_live_rate called once against an arbitrary pair of endpoints
SpecFetch == Init /\ [][NextFetch]_vars

\* the driver loop of agent1-search against an arbitrary user and agent
SpecDriver == Init /\ [][NextDriver]_vars

(***************************************************************************)
(* Properties of fetch_live_rate                                           *)
(***************************************************************************)
\* the request succeeded, the status was good and the body parsed
RequestOK(r) == r.kind = "json"

\* the document holds an entry for target t under base b
HoldsTarget(r, b, t) ==
    /\ RequestOK(r)
    /\ r.data.tag = "dict"
    /\ b \in DOMAIN r.data.d
    /\ r.data.d[b].tag = "dict"
    /\ t \in DOMAIN r.data.d[b].d

\* ... and that entry converts to a float
YieldsRate(r, b, t) == HoldsTarget(r, b, t) /\ r.data.d[b].d[t] \in {"0.9", "1.1"}

RateOf(r, b, t) == IF r.data.d[b].d[t] = "0.9" THEN 9 ELSE 11

\* C9 (as amended): the endpoints are requested in their listed order; the
\* call returns the rate of the first endpoint whose request succeeds and
\* whose data holds the target currency with a value that converts to a
\* float, and requests no endpoint after it; every other outcome at an
\* endpoint (request exception, HTTP error status, unparsable body, target
\* absent, value not convertible) leads to the next endpoint; RuntimeError
\* is raised exactly when every endpoint was requested and none yielded.
C9_EndpointFallback ==
    LET b == Lower(from_currency)
        t == Lower(to_currency)
        n == Len(log)
    IN  /\ Len(requested) = n
        /\ n <= Len(urls(b))
        /\ \A i \in 1..n : requested[i] = urls(b)[i]
        /\ \A i \in 1..(n - 1) : ~YieldsRate(log[i], b, t)
        /\ fpc = "loop" => /\ idx = n + 1
                           /\ result.kind = "none"
                           /\ n >= 1 => ~YieldsRate(log[n], b, t)
        /\ fpc = "done" =>
              /\ result.kind \in {"return", "RuntimeError"}
              /\ result.kind = "return" =>
                    /\ n >= 1
                    /\ YieldsRate(log[n], b, t)
                    /\ result.value = RateOf(log[n], b, t)
              /\ result.kind = "RuntimeError" <=>
                    /\ n = Len(urls(b))
                    /\ \A i \in 1..n : ~YieldsRate(log[i], b, t)

\* the first endpoint holds the target with a null value, the second one
\* answers, and the call returns the second one's rate
C9_Witness ==
    /\ fpc = "done"
    /\ result.kind = "return"
    /\ Len(log) = 2
    /\ HoldsTarget(log[1], Lower(from_currency), Lower(to_currency))
    /\ to_currency # Lower(to_currency)

\* C9 as written: the call returns the rate of the first endpoint whose
\* request succeeds and whose data holds the target currency, and requests
\* no later endpoint; RuntimeError exactly when no endpoint yields the rate.
C9_AsWritten ==
    LET b == Lower(from_currency)
        t == Lower(to_currency)
        n == Len(log)
        holders == { i \in 1..n : RequestOK(log[i]) /\ HoldsTarget(log[i], b, t) }
    IN  fpc = "done" =>
          /\ holders # {} =>
                /\ result.kind = "return"
                /\ \A i \in holders : i = n
                /\ YieldsRate(log[n], b, t) /\ result.value = RateOf(log[n], b, t)
          /\ result.kind = "RuntimeError" <=> \A i \in 1..n : ~YieldsRate(log[i], b, t)

(***************************************************************************)
(* Properties of the agent1-search driver loop                             *)
(***************************************************************************)
Normalised(line) == Lower(Strip(line))

\* the inputs whose iteration is over
Served == IF dpc = "run" THEN Len(inputs) - 1 ELSE Len(inputs)

RECURSIVE ExpectedRuns(_)
ExpectedRuns(ls) ==
    IF ls = <<>> THEN <<>>
    ELSE IF Normalised(Head(ls)) = ExitWord THEN ExpectedRuns(Tail(ls))
         ELSE <<Strip(Head(ls))>> \o ExpectedRuns(Tail(ls))

Reports == SelectSeq(printed, LAMBDA x : x \in {"answer", "Error"})

C10_Inv ==
    LET n == Len(inputs) IN
    /\ \A i \in 1..(n - 1) : Normalised(inputs[i]) # ExitWord
    /\ (n >= 1 /\ Normalised(inputs[n]) = ExitWord) => (dpc = "ended" /\ endReason = "break")
    /\ dpc = "ended" =>
          \/ endReason = "break" /\ n >= 1 /\ Normalised(inputs[n]) = ExitWord
          \/ endReason = "EOFError"
    /\ dpc # "ended" => endReason = "none"
    /\ runCalls = ExpectedRuns(SubSeq(inputs, 1, Served))
    /\ Len(Reports) = Len(runCalls)

====
